---- MODULE Spec2Model ----
(***************************************************************************)
(* Model of the media-upload server: the WorkerPool (a buffered Go channel *)
(* of Jobs drained by WorkerCount worker goroutines), the gRPC streaming   *)
(* handler UploadVideo, the HTTP handler handleWebUpload and the           *)
(* lifecycle main drives (NewWorkerPool, Start, serve, Stop).              *)
(*                                                                         *)
(* Go channel semantics used by the model (runtime chansend / chanrecv /   *)
(* closechan):                                                             *)
(*   - a non-blocking send (select with default) on an open channel hands  *)
(*     the value straight to the longest-parked receiver when there is     *)
(*     one, else stores it in the buffer when the buffer has room, else    *)
(*     takes the default branch;                                           *)
(*   - a send on a closed channel panics, in a select as well;             *)
(*   - a receive takes the head of the buffer, else returns "closed" on a  *)
(*     closed channel, else parks the goroutine;                           *)
(*   - close wakes every parked receiver.                                  *)
(* A panic in a gRPC handler is not recovered and ends the process; a      *)
(* panic in a net/http handler is recovered by the HTTP server.            *)
(***************************************************************************)
EXTENDS Integers, Sequences, FiniteSets, TLC

\* ------------------------------------------------------------------ bounds
MaxQ == 2          \* queue capacities 0..MaxQ are explored (flag -q)
MaxC == 2          \* worker counts 0..MaxC are explored (flag -c)
MaxRequests == 1   \* upload requests (streams and HTTP posts) in one run,
                   \* each served by a handler goroutine of its own
MaxCalls == 5      \* AddJob calls in one run of the pool on its own
MaxChunks == 2     \* data chunks one stream may carry

\* ------------------------------------------------------------------ state
VARIABLES
    Q,            \* cap(wp.JobQueue), fixed by NewWorkerPool
    WorkerCount,  \* wp.WorkerCount
    JobQueue,     \* the channel's buffer, head first
    closed,       \* the channel has been closed
    recvq,        \* workers parked in a receive, longest-parked first
    wg,           \* wp.wg counter
    mainPc,       \* position of main: "start", "serving", "waiting", "exited"
    startI,       \* loop variable i of Start
    wpc,          \* position of each worker goroutine
    wjob,         \* the Job a worker holds (loop variable job)
    sess,         \* the locals of each handler goroutine
    exists,       \* paths that exist under uploads/
    crashed,      \* an unrecovered panic has ended the process
    calls,        \* PoolSpec: AddJob calls made so far
    ret,          \* PoolSpec: what the last AddJob call returned
    admitOrder    \* history: ids of the Jobs admitted and not yet received,
                  \* in admission order

vars == <<Q, WorkerCount, JobQueue, closed, recvq, wg, mainPc, startI, wpc,
          wjob, sess, exists, crashed, calls, ret, admitOrder>>

callVars == <<calls, ret>>
poolVars == <<JobQueue, recvq, wpc, wjob, admitOrder>>

Workers == 1..MaxC
Slots == 1..MaxRequests

\* A client file name is a sequence of path components. The names a stream
\* may carry and the names an HTTP post may carry; "video_web_a" is the id
\* of the stream name "web_a" and of the HTTP name "a".
Filenames == { <<"x", "a">>, <<"web_a">> }
WebFilenames == { <<"a">> }

\* filepath.Base on a name given as its components.
Base(p) == IF p = <<>> THEN "." ELSE p[Len(p)]

\* fmt.Sprintf("video_%s", filepath.Base(name)) followed by filepath.Base:
\* the formatted id holds no separator, so the second Base keeps it.
GrpcVideoID(name) == Base(<<"video_" \o Base(name)>>)

\* fmt.Sprintf("video_web_%s", filepath.Base(header.Filename))
WebVideoID(name) == "video_web_" \o Base(name)

\* filepath.Join("uploads", videoID)
SavePath(id) == "uploads/" \o id

VideoIDs == { GrpcVideoID(n) : n \in Filenames } \cup { WebVideoID(n) : n \in WebFilenames }
Paths == { SavePath(id) : id \in VideoIDs }

\* Job{Filename, VideoID}; id is history: it tells apart two Jobs of equal
\* fields, and is the least number no Job in the pool carries.
NoJob == [Filename |-> "", VideoID |-> "", id |-> 0]
IdsInUse ==
    { JobQueue[i].id : i \in 1..Len(JobQueue) }
        \cup { wjob[w].id : w \in DOMAIN wjob }
        \cup { admitOrder[i] : i \in 1..Len(admitOrder) }
FreshId ==
    CHOOSE n \in 1..(Cardinality(IdsInUse) + 1) :
        /\ n \notin IdsInUse
        /\ \A m \in 1..(n - 1) : m \in IdsInUse
MkJob(fn, vid) == [Filename |-> fn, VideoID |-> vid, id |-> FreshId]

\* s without the first occurrence of x.
RemoveFirst(s, x) ==
    IF \E i \in 1..Len(s) : s[i] = x
    THEN LET k == CHOOSE i \in 1..Len(s) : s[i] = x /\ \A j \in 1..(i - 1) : s[j] # x
         IN  SubSeq(s, 1, k - 1) \o SubSeq(s, k + 1, Len(s))
    ELSE s

NoReq == <<>>

\* The locals of a handler goroutine that has no request.
IdleSess ==
    [kind |-> "none", pc |-> "idle", file |-> "", fopen |-> FALSE, videoID |-> "",
     fileSize |-> 0, req |-> NoReq, chunks |-> 0, closes |-> 0,
     addCalls |-> 0, added |-> "none", cause |-> "none", result |-> "none"]

Alive == ~crashed /\ mainPc # "exited"

\* ------------------------------------------------------------------ Init
\* NewWorkerPool(c, q): make(chan Job, q) needs q >= 0; c is any flag value,
\* and a value <= 0 starts no worker, like 0.
Init ==
    /\ Q \in 0..MaxQ
    /\ WorkerCount \in 0..MaxC
    /\ JobQueue = <<>>
    /\ closed = FALSE
    /\ recvq = <<>>
    /\ wg = 0
    /\ mainPc = "start"
    /\ startI = 1
    /\ wpc = [w \in Workers |-> "unborn"]
    /\ wjob = [w \in Workers |-> NoJob]
    /\ sess = [s \in Slots |-> IdleSess]
    /\ exists = {}
    /\ crashed = FALSE
    /\ calls = 0
    /\ ret = "none"
    /\ admitOrder = <<>>

\* ------------------------------------------------------------ the channel
\* The buffer has no room: the test a non-blocking send makes when no
\* receiver is parked.
ChanFullOffByOne(buf, cap) == Len(buf) > cap
ChanFull(buf, cap) == Len(buf) >= cap

\* What the select in AddJob does in the current state.
AddJobCase ==
    IF closed THEN "panic"
    ELSE IF recvq # <<>> THEN "handoff"
    ELSE IF ~ChanFull(JobQueue, Q) THEN "buffered"
    ELSE "default"

\* AddJob's return value (meaningless when it panics).
AddJobRet == AddJobCase \in {"handoff", "buffered"}

\* The position a buffered Job takes.
EnqueueAtHead(buf, job) == <<job>> \o buf
Enqueue(buf, job) == Append(buf, job)

\* The effect of AddJob(job) on the pool.
AddJob(job) ==
    CASE AddJobCase = "handoff" ->
            LET w == Head(recvq) IN
            /\ recvq' = Tail(recvq)
            /\ wpc' = [wpc EXCEPT ![w] = "gif"]
            /\ wjob' = [wjob EXCEPT ![w] = job]
            /\ JobQueue' = JobQueue
            /\ admitOrder' = admitOrder
      [] AddJobCase = "buffered" ->
            /\ JobQueue' = Enqueue(JobQueue, job)
            /\ admitOrder' = Append(admitOrder, job.id)
            /\ UNCHANGED <<recvq, wpc, wjob>>
      [] OTHER -> UNCHANGED poolVars

\* ------------------------------------------------------------------ main
\* One iteration of Start's loop: wg.Add(1); go wp.worker(i).
Start ==
    /\ Alive /\ mainPc = "start" /\ startI <= WorkerCount
    /\ wg' = wg + 1
    /\ wpc' = [wpc EXCEPT ![startI] = "recv"]
    /\ startI' = startI + 1
    /\ UNCHANGED <<Q, WorkerCount, JobQueue, closed, recvq, mainPc, wjob,
                   sess, exists, crashed, callVars, admitOrder>>

\* Start returns; main starts the HTTP and gRPC servers.
StartReturn ==
    /\ Alive /\ mainPc = "start" /\ startI > WorkerCount
    /\ mainPc' = "serving"
    /\ UNCHANGED <<Q, WorkerCount, JobQueue, closed, recvq, wg, startI, wpc,
                   wjob, sess, exists, crashed, callVars, admitOrder>>

\* Stop, first statement: close(wp.JobQueue) wakes every parked worker.
Stop ==
    /\ Alive /\ mainPc = "serving"
    /\ closed' = TRUE
    /\ recvq' = <<>>
    /\ wpc' = [w \in Workers |-> IF wpc[w] = "blocked" THEN "recv" ELSE wpc[w]]
    /\ mainPc' = "waiting"
    /\ UNCHANGED <<Q, WorkerCount, JobQueue, wg, startI, wjob, sess, exists,
                   crashed, callVars, admitOrder>>

\* A Stop that does not wait for the workers.
StopReturnWithoutWait ==
    /\ Alive /\ mainPc = "waiting"
    /\ mainPc' = "exited"
    /\ UNCHANGED <<Q, WorkerCount, JobQueue, closed, recvq, wg, startI, wpc,
                   wjob, sess, exists, crashed, callVars, admitOrder>>

\* Stop, second statement: wp.wg.Wait() returns; main returns and the
\* process ends.
StopReturn ==
    /\ Alive /\ mainPc = "waiting" /\ wg = 0
    /\ mainPc' = "exited"
    /\ UNCHANGED <<Q, WorkerCount, JobQueue, closed, recvq, wg, startI, wpc,
                   wjob, sess, exists, crashed, callVars, admitOrder>>

\* ---------------------------------------------------------------- worker
\* What a receive leaves in the buffer.
KeepHead(buf) == buf
Dequeue(buf) == Tail(buf)

\* for job := range wp.JobQueue, buffer not empty: take the head.
workerDequeue(w) ==
    /\ Alive /\ wpc[w] = "recv" /\ JobQueue # <<>>
    /\ wjob' = [wjob EXCEPT ![w] = Head(JobQueue)]
    /\ JobQueue' = Dequeue(JobQueue)
    /\ admitOrder' = RemoveFirst(admitOrder, Head(JobQueue).id)
    /\ wpc' = [wpc EXCEPT ![w] = "gif"]
    /\ UNCHANGED <<Q, WorkerCount, closed, recvq, wg, mainPc, startI, sess,
                   exists, crashed, callVars>>

\* for job := range wp.JobQueue, buffer empty and channel open: park.
workerPark(w) ==
    /\ Alive /\ wpc[w] = "recv" /\ JobQueue = <<>> /\ ~closed
    /\ recvq' = Append(recvq, w)
    /\ wpc' = [wpc EXCEPT ![w] = "blocked"]
    /\ UNCHANGED <<Q, WorkerCount, JobQueue, closed, wg, mainPc, startI,
                   wjob, sess, exists, crashed, callVars, admitOrder>>

\* for job := range wp.JobQueue, buffer empty and channel closed: the loop
\* ends and the deferred wp.wg.Done() runs.
workerExit(w) ==
    /\ Alive /\ wpc[w] = "recv" /\ JobQueue = <<>> /\ closed
    /\ wpc' = [wpc EXCEPT ![w] = "exited"]
    /\ wg' = wg - 1
    /\ UNCHANGED <<Q, WorkerCount, JobQueue, closed, recvq, mainPc, startI,
                   wjob, sess, exists, crashed, callVars, admitOrder>>

\* A worker that gives up when a step fails.
workerGifExitsOnFailure(w) ==
    /\ Alive /\ wpc[w] = "gif"
    /\ \/ /\ wpc' = [wpc EXCEPT ![w] = "jpg"]
          /\ UNCHANGED <<wjob, wg>>
       \/ /\ wpc' = [wpc EXCEPT ![w] = "exited"]
          /\ wjob' = [wjob EXCEPT ![w] = NoJob]
          /\ wg' = wg - 1
    /\ UNCHANGED <<Q, WorkerCount, JobQueue, closed, recvq, mainPc, startI,
                   sess, exists, crashed, callVars, admitOrder>>

\* cmdGif.Run(): the external ffmpeg succeeds, and the worker goes on to
\* the second step, or fails, and the worker is at the slog.Error and
\* continue of the first step.
workerGif(w) ==
    /\ Alive /\ wpc[w] = "gif"
    /\ \/ wpc' = [wpc EXCEPT ![w] = "jpg"]
       \/ wpc' = [wpc EXCEPT ![w] = "failed"]
    /\ UNCHANGED <<Q, WorkerCount, JobQueue, closed, recvq, wg, mainPc,
                   startI, wjob, sess, exists, crashed, callVars, admitOrder>>

\* cmdJpg.Run(): on success the Job is done and the loop takes its next
\* turn; on failure the worker is at the slog.Error and continue of the
\* second step.
workerJpg(w) ==
    /\ Alive /\ wpc[w] = "jpg"
    /\ \/ /\ wpc' = [wpc EXCEPT ![w] = "recv"]
          /\ wjob' = [wjob EXCEPT ![w] = NoJob]
       \/ /\ wpc' = [wpc EXCEPT ![w] = "failed"]
          /\ wjob' = wjob
    /\ UNCHANGED <<Q, WorkerCount, JobQueue, closed, recvq, wg, mainPc,
                   startI, sess, exists, crashed, callVars, admitOrder>>

\* A worker without the continue: after a failed step it falls through to
\* the second step.
workerContinueFallsThrough(w) ==
    /\ Alive /\ wpc[w] = "failed"
    /\ wpc' = [wpc EXCEPT ![w] = "jpg"]
    /\ UNCHANGED <<Q, WorkerCount, JobQueue, closed, recvq, wg, mainPc,
                   startI, wjob, sess, exists, crashed, callVars, admitOrder>>

\* continue, after a failed step: the Job is dropped and the loop takes its
\* next turn.
workerContinue(w) ==
    /\ Alive /\ wpc[w] = "failed"
    /\ wpc' = [wpc EXCEPT ![w] = "recv"]
    /\ wjob' = [wjob EXCEPT ![w] = NoJob]
    /\ UNCHANGED <<Q, WorkerCount, JobQueue, closed, recvq, wg, mainPc,
                   startI, sess, exists, crashed, callVars, admitOrder>>

\* ------------------------------------------------------- handler helpers
cfgVars == <<Q, WorkerCount>>
mainVars == <<closed, wg, mainPc, startI>>

\* The deferred file.Close() of UploadVideo runs on every return and on a
\* panic, once the defer statement has been reached (file # ""). Close on
\* an open handle closes it; Close on a handle already closed returns
\* os.ErrClosed, which the handler ignores, and does nothing.
NoDeferredClose(r) == r
DeferredClose(r) ==
    IF r.file # "" /\ r.fopen THEN [r EXCEPT !.fopen = FALSE, !.closes = @ + 1] ELSE r

\* return: the handler ends with result res and its locals are gone. What
\* stays is history: the result, the id sent back with a success response,
\* whether a file was created, the counts of Close and AddJob calls, what
\* AddJob returned and what ended the receive loop.
Return(r, res) ==
    [IdleSess EXCEPT !.kind = r.kind, !.pc = "done", !.result = res,
                     !.videoID = IF res = "OK" THEN r.videoID ELSE "",
                     !.file = IF r.file # "" THEN "created" ELSE "",
                     !.closes = r.closes, !.addCalls = r.addCalls,
                     !.added = r.added, !.cause = r.cause]

\* os.Remove(path)
RemoveNothing(fs, path) == fs
Remove(fs, path) == fs \ {path}

\* The gRPC status codes UploadVideo returns.
StatusQueueFullAsInternal == "Internal"
StatusQueueFull == "ResourceExhausted"
StatusStreamError == "Unknown"
StatusFileError == "Internal"

\* A new stream or HTTP request arrives and its handler goroutine starts.
\* Handlers are numbered in the order their requests arrive.
NewRequest(s) ==
    /\ Alive /\ mainPc \in {"serving", "waiting"}
    /\ sess[s].pc = "idle"
    /\ \A r \in DOMAIN sess : r < s => sess[r].pc # "idle"
    /\ \E k \in {"grpc", "http"} :
         sess' = [sess EXCEPT ![s] = [IdleSess EXCEPT !.kind = k, !.pc = "recv"]]
    /\ UNCHANGED <<cfgVars, mainVars, poolVars, exists, crashed, callVars>>

\* ----------------------------------------------------------- UploadVideo
\* A handler that leaves the file open until it returns.
UploadVideoEOFKeepsOpen(s) ==
    /\ Alive /\ sess[s].kind = "grpc" /\ sess[s].pc = "recv"
    /\ IF sess[s].file # ""
       THEN /\ sess' = [sess EXCEPT ![s] = [@ EXCEPT !.cause = "eof",
                                                     !.pc = "addjob"]]
            /\ crashed' = crashed
       ELSE /\ sess' = [sess EXCEPT ![s] =
                         Return([@ EXCEPT !.cause = "eof"], "panic")]
            /\ crashed' = TRUE
    /\ UNCHANGED <<cfgVars, mainVars, poolVars, exists, callVars>>

\* stream.Recv() returns io.EOF. With a file: file.Close(), then the Job is
\* built. Without one (no chunk was received) file.Name() dereferences the
\* nil *os.File and the handler panics.
UploadVideoEOF(s) ==
    /\ Alive /\ sess[s].kind = "grpc" /\ sess[s].pc = "recv"
    /\ IF sess[s].file # ""
       THEN /\ sess' = [sess EXCEPT ![s] = [@ EXCEPT !.fopen = FALSE,
                                                     !.closes = @ + 1,
                                                     !.cause = "eof",
                                                     !.pc = "addjob"]]
            /\ crashed' = crashed
       ELSE /\ sess' = [sess EXCEPT ![s] =
                         Return([@ EXCEPT !.cause = "eof"], "panic")]
            /\ crashed' = TRUE
    /\ UNCHANGED <<cfgVars, mainVars, poolVars, exists, callVars>>

\* stream.Recv() returns another error: codes.Unknown.
UploadVideoRecvErr(s) ==
    /\ Alive /\ sess[s].kind = "grpc" /\ sess[s].pc = "recv"
    /\ sess' = [sess EXCEPT ![s] =
                  Return(DeferredClose([@ EXCEPT !.cause = "recv"]), StatusStreamError)]
    /\ UNCHANGED <<cfgVars, mainVars, poolVars, exists, crashed, callVars>>

\* A handler that derives the id and the path from every chunk.
UploadVideoChunkRenames(s) ==
    /\ Alive /\ sess[s].kind = "grpc" /\ sess[s].pc = "recv"
    /\ sess[s].chunks < MaxChunks
    /\ \E name \in Filenames :
         LET r == [sess[s] EXCEPT !.req = name, !.chunks = @ + 1]
             id == GrpcVideoID(name)
         IN  \/ /\ sess' = [sess EXCEPT ![s] =
                              [r EXCEPT !.videoID = id,
                                        !.file = SavePath(id),
                                        !.fopen = TRUE,
                                        !.pc = "write"]]
                /\ exists' = exists \cup {SavePath(id)}
             \/ /\ r.file = ""
                /\ sess' = [sess EXCEPT ![s] =
                              Return([r EXCEPT !.videoID = id,
                                               !.cause = "create"],
                                     StatusFileError)]
                /\ exists' = exists
    /\ UNCHANGED <<cfgVars, mainVars, poolVars, crashed, callVars>>

\* stream.Recv() returns a chunk. On the first one the id is derived and
\* the file created (os.Create truncates a file that exists); a create
\* error returns codes.Internal before the defer is reached.
UploadVideoChunk(s) ==
    /\ Alive /\ sess[s].kind = "grpc" /\ sess[s].pc = "recv"
    /\ sess[s].chunks < MaxChunks
    /\ \E name \in Filenames :
         LET r == [sess[s] EXCEPT !.req = name, !.chunks = @ + 1]
             id == GrpcVideoID(name)
         IN  IF r.file # ""
             THEN /\ sess' = [sess EXCEPT ![s] = [r EXCEPT !.pc = "write"]]
                  /\ exists' = exists
             ELSE \/ /\ sess' = [sess EXCEPT ![s] =
                                   [r EXCEPT !.videoID = id,
                                             !.file = SavePath(id),
                                             !.fopen = TRUE,
                                             !.pc = "write"]]
                     /\ exists' = exists \cup {SavePath(id)}
                  \/ /\ sess' = [sess EXCEPT ![s] =
                                   Return([r EXCEPT !.videoID = id,
                                                    !.cause = "create"],
                                          StatusFileError)]
                     /\ exists' = exists
    /\ UNCHANGED <<cfgVars, mainVars, poolVars, crashed, callVars>>

\* file.Write(req.Content): fileSize += n, or codes.Internal.
UploadVideoWrite(s) ==
    /\ Alive /\ sess[s].kind = "grpc" /\ sess[s].pc = "write"
    /\ \/ sess' = [sess EXCEPT ![s] = [@ EXCEPT !.fileSize = @ + 1,
                                                !.req = NoReq,
                                                !.pc = "recv"]]
       \/ sess' = [sess EXCEPT ![s] =
                    Return(DeferredClose([@ EXCEPT !.cause = "write"]), StatusFileError)]
    /\ UNCHANGED <<cfgVars, mainVars, poolVars, exists, crashed, callVars>>

\* added := s.wp.AddJob(job). Accepted: SendAndClose and return its error.
\* A send on the closed channel panics and the process ends.
UploadVideoAddJob(s) ==
    /\ Alive /\ sess[s].kind = "grpc" /\ sess[s].pc = "addjob"
    /\ AddJob(MkJob(sess[s].file, sess[s].videoID))
    /\ LET r == [sess[s] EXCEPT !.addCalls = @ + 1] IN
       CASE AddJobCase = "panic" ->
               /\ sess' = [sess EXCEPT ![s] = Return(DeferredClose(r), "panic")]
               /\ crashed' = TRUE
         [] AddJobRet ->
               /\ \E res \in {"OK", "SendError"} :
                    sess' = [sess EXCEPT ![s] =
                        Return(DeferredClose([r EXCEPT !.added = "true"]), res)]
               /\ crashed' = crashed
         [] OTHER ->
               /\ sess' = [sess EXCEPT ![s] = [r EXCEPT !.added = "false",
                                                        !.pc = "remove"]]
               /\ crashed' = crashed
    /\ UNCHANGED <<cfgVars, mainVars, exists, callVars>>

\* !added: os.Remove(job.Filename) and codes.ResourceExhausted.
UploadVideoReject(s) ==
    /\ Alive /\ sess[s].kind = "grpc" /\ sess[s].pc = "remove"
    /\ exists' = Remove(exists, sess[s].file)
    /\ sess' = [sess EXCEPT ![s] = Return(DeferredClose(@), StatusQueueFull)]
    /\ UNCHANGED <<cfgVars, mainVars, poolVars, crashed, callVars>>

\* ------------------------------------------------------- handleWebUpload
\* Method check, FormFile and os.Create(savePath).
handleWebUploadSave(s) ==
    /\ Alive /\ sess[s].kind = "http" /\ sess[s].pc = "recv"
    /\ \/ /\ sess' = [sess EXCEPT ![s] = Return([@ EXCEPT !.cause = "method"], "405")]
          /\ exists' = exists
       \/ /\ sess' = [sess EXCEPT ![s] = Return([@ EXCEPT !.cause = "form"], "400")]
          /\ exists' = exists
       \/ \E name \in WebFilenames :
            LET id == WebVideoID(name)
                r == [sess[s] EXCEPT !.videoID = id]
            IN  \/ /\ sess' = [sess EXCEPT ![s] =
                                 [r EXCEPT !.file = SavePath(id),
                                           !.fopen = TRUE,
                                           !.pc = "copy"]]
                   /\ exists' = exists \cup {SavePath(id)}
                \/ /\ sess' = [sess EXCEPT ![s] =
                                 Return([r EXCEPT !.cause = "create"], "500")]
                   /\ exists' = exists
    /\ UNCHANGED <<cfgVars, mainVars, poolVars, crashed, callVars>>

\* io.Copy(dst, file); dst.Close(); a copy error answers 500.
handleWebUploadCopy(s) ==
    /\ Alive /\ sess[s].kind = "http" /\ sess[s].pc = "copy"
    /\ LET r == [sess[s] EXCEPT !.fopen = FALSE, !.closes = @ + 1] IN
       \/ sess' = [sess EXCEPT ![s] = [r EXCEPT !.fileSize = 1,
                                                !.cause = "eof",
                                                !.pc = "addjob"]]
       \/ sess' = [sess EXCEPT ![s] = Return([r EXCEPT !.cause = "write"], "500")]
    /\ UNCHANGED <<cfgVars, mainVars, poolVars, exists, crashed, callVars>>

\* A handler that answers 200 whatever AddJob returned.
handleWebUploadAddJobAlwaysOK(s) ==
    /\ Alive /\ sess[s].kind = "http" /\ sess[s].pc = "addjob"
    /\ AddJob(MkJob(sess[s].file, sess[s].videoID))
    /\ LET r == [sess[s] EXCEPT !.addCalls = @ + 1] IN
       CASE AddJobCase = "panic" ->
               sess' = [sess EXCEPT ![s] = Return(r, "panic")]
         [] AddJobRet ->
               sess' = [sess EXCEPT ![s] = Return([r EXCEPT !.added = "true"], "200")]
         [] OTHER ->
               sess' = [sess EXCEPT ![s] = Return([r EXCEPT !.added = "false"], "200")]
    /\ UNCHANGED <<cfgVars, mainVars, exists, crashed, callVars>>

\* added := globalWP.AddJob(job). Accepted: 200. A send on the closed
\* channel panics; net/http recovers the panic and drops the connection.
handleWebUploadAddJob(s) ==
    /\ Alive /\ sess[s].kind = "http" /\ sess[s].pc = "addjob"
    /\ AddJob(MkJob(sess[s].file, sess[s].videoID))
    /\ LET r == [sess[s] EXCEPT !.addCalls = @ + 1] IN
       CASE AddJobCase = "panic" ->
               sess' = [sess EXCEPT ![s] = Return(r, "panic")]
         [] AddJobRet ->
               sess' = [sess EXCEPT ![s] = Return([r EXCEPT !.added = "true"], "200")]
         [] OTHER ->
               sess' = [sess EXCEPT ![s] = [r EXCEPT !.added = "false",
                                                     !.pc = "remove"]]
    /\ UNCHANGED <<cfgVars, mainVars, exists, crashed, callVars>>

\* !added: os.Remove(savePath) and 503.
handleWebUploadReject(s) ==
    /\ Alive /\ sess[s].kind = "http" /\ sess[s].pc = "remove"
    /\ exists' = Remove(exists, sess[s].file)
    /\ sess' = [sess EXCEPT ![s] = Return(@, "503")]
    /\ UNCHANGED <<cfgVars, mainVars, poolVars, crashed, callVars>>

\* ------------------------------------------------ the pool's API callers
\* The Jobs a caller may submit.
CallerJobs == { MkJob(SavePath(v), v) : v \in VideoIDs }

\* Some goroutine calls wp.AddJob(job) once the servers run. A send on the
\* closed channel panics: in a gRPC handler the process ends, in an HTTP
\* handler the panic is recovered.
AddJobCall ==
    /\ Alive /\ mainPc \in {"serving", "waiting"}
    /\ calls < MaxCalls
    /\ calls' = calls + 1
    /\ \E job \in CallerJobs : AddJob(job)
    /\ IF AddJobCase = "panic"
       THEN /\ ret' = "panic"
            /\ crashed' \in BOOLEAN
       ELSE /\ ret' = IF AddJobRet THEN "true" ELSE "false"
            /\ crashed' = crashed
    /\ UNCHANGED <<cfgVars, mainVars, sess, exists>>

\* The WorkerPool on its own, driven through its API.
PoolNext ==
    \/ Start
    \/ StartReturn
    \/ Stop
    \/ StopReturn
    \/ \E w \in Workers : workerDequeue(w)
    \/ \E w \in Workers : workerPark(w)
    \/ \E w \in Workers : workerExit(w)
    \/ \E w \in Workers : workerGif(w)
    \/ \E w \in Workers : workerJpg(w)
    \/ \E w \in Workers : workerContinue(w)
    \/ AddJobCall

PoolSpec == Init /\ [][PoolNext]_vars

\* Scheduling: the Go scheduler runs every runnable goroutine, so a worker
\* that can take a step eventually takes it, an ffmpeg that was started
\* eventually returns, and main goes on when wg.Wait() can return. Calls of
\* AddJob and of Stop come from outside and are not forced.
PoolFairness ==
    /\ WF_vars(Start) /\ WF_vars(StartReturn) /\ WF_vars(StopReturn)
    /\ \A w \in Workers :
         /\ WF_vars(workerDequeue(w))
         /\ WF_vars(workerPark(w))
         /\ WF_vars(workerExit(w))
         /\ WF_vars(workerGif(w))
         /\ WF_vars(workerJpg(w))
         /\ WF_vars(workerContinue(w))

PoolFairSpec == PoolSpec /\ PoolFairness

Next ==
    \/ Start
    \/ StartReturn
    \/ Stop
    \/ StopReturn
    \/ \E w \in Workers : workerDequeue(w)
    \/ \E w \in Workers : workerPark(w)
    \/ \E w \in Workers : workerExit(w)
    \/ \E w \in Workers : workerGif(w)
    \/ \E w \in Workers : workerJpg(w)
    \/ \E w \in Workers : workerContinue(w)
    \/ \E s \in Slots : NewRequest(s)
    \/ \E s \in Slots : UploadVideoEOF(s)
    \/ \E s \in Slots : UploadVideoRecvErr(s)
    \/ \E s \in Slots : UploadVideoChunk(s)
    \/ \E s \in Slots : UploadVideoWrite(s)
    \/ \E s \in Slots : UploadVideoAddJob(s)
    \/ \E s \in Slots : UploadVideoReject(s)
    \/ \E s \in Slots : handleWebUploadSave(s)
    \/ \E s \in Slots : handleWebUploadCopy(s)
    \/ \E s \in Slots : handleWebUploadAddJob(s)
    \/ \E s \in Slots : handleWebUploadReject(s)

Spec == Init /\ [][Next]_vars

\* The server with one request more than Spec serves, so that two
\* handlers run side by side from the smallest bound on.
RaceSlots == 1..(MaxRequests + 1)

RaceInit ==
    /\ Q \in 0..MaxQ
    /\ WorkerCount \in 0..MaxC
    /\ JobQueue = <<>>
    /\ closed = FALSE
    /\ recvq = <<>>
    /\ wg = 0
    /\ mainPc = "start"
    /\ startI = 1
    /\ wpc = [w \in Workers |-> "unborn"]
    /\ wjob = [w \in Workers |-> NoJob]
    /\ sess = [s \in RaceSlots |-> IdleSess]
    /\ exists = {}
    /\ crashed = FALSE
    /\ calls = 0
    /\ ret = "none"
    /\ admitOrder = <<>>

RaceNext ==
    \/ Start
    \/ StartReturn
    \/ Stop
    \/ StopReturn
    \/ \E w \in Workers : workerDequeue(w)
    \/ \E w \in Workers : workerPark(w)
    \/ \E w \in Workers : workerExit(w)
    \/ \E w \in Workers : workerGif(w)
    \/ \E w \in Workers : workerJpg(w)
    \/ \E w \in Workers : workerContinue(w)
    \/ \E s \in RaceSlots : NewRequest(s)
    \/ \E s \in RaceSlots : UploadVideoEOF(s)
    \/ \E s \in RaceSlots : UploadVideoRecvErr(s)
    \/ \E s \in RaceSlots : UploadVideoChunk(s)
    \/ \E s \in RaceSlots : UploadVideoWrite(s)
    \/ \E s \in RaceSlots : UploadVideoAddJob(s)
    \/ \E s \in RaceSlots : UploadVideoReject(s)
    \/ \E s \in RaceSlots : handleWebUploadSave(s)
    \/ \E s \in RaceSlots : handleWebUploadCopy(s)
    \/ \E s \in RaceSlots : handleWebUploadAddJob(s)
    \/ \E s \in RaceSlots : handleWebUploadReject(s)

RaceSpec == RaceInit /\ [][RaceNext]_vars

\* ================================================================ claims
IsAddJobCall == calls' # calls
Holding(w) == wjob[w] # NoJob
Running(w) == wpc[w] \in {"recv", "blocked", "gif", "jpg", "failed"}

\* C1, as stated: on an open queue, for every capacity Q >= 0 and whether or
\* not workers are parked, AddJob returns true and appends the job at the
\* tail iff the queue length is < Q; otherwise it returns false and leaves
\* the queue unchanged.
C1_AsStated ==
    [][ (IsAddJobCall /\ ~closed) =>
          /\ (ret' = "true" /\ \E job \in CallerJobs : JobQueue' = Append(JobQueue, job))
                <=> Len(JobQueue) < Q
          /\ ~(Len(JobQueue) < Q) => (ret' = "false" /\ JobQueue' = JobQueue) ]_vars

\* C1, amended: on an open queue AddJob never blocks and returns true or
\* false. When a worker is parked in a receive (the queue is then empty) it
\* returns true and hands the job to the longest-parked worker, leaving the
\* queue empty, for every Q >= 0. When no worker is parked it returns true
\* and appends the job at the tail iff the length is < Q, and otherwise
\* returns false and changes neither the queue nor any worker. So for
\* Q >= 1 it returns true iff the length is < Q.
C1_AddJob ==
    /\ [][ (IsAddJobCall /\ ~closed) =>
             /\ ret' \in {"true", "false"}
             /\ IF recvq # <<>>
                THEN /\ ret' = "true"
                     /\ JobQueue = <<>> /\ JobQueue' = <<>>
                     /\ wjob'[Head(recvq)] \in CallerJobs
                     /\ recvq' = Tail(recvq)
                ELSE /\ ret' = "true" <=> Len(JobQueue) < Q
                     /\ ret' = "true" =>
                          \E job \in CallerJobs : JobQueue' = Append(JobQueue, job)
                     /\ ret' = "false" => (JobQueue' = JobQueue /\ wjob' = wjob)
             /\ Q >= 1 => (ret' = "true" <=> Len(JobQueue) < Q) ]_vars
    /\ []( (Alive /\ mainPc \in {"serving", "waiting"} /\ calls < MaxCalls)
              => ENABLED AddJobCall )

\* C1 witness: calls were accepted and the last one, made on a full open
\* queue of capacity >= 1, was refused.
C1_Witness ==
    /\ Q >= 1 /\ ~closed /\ Len(JobQueue) = Q
    /\ ret = "false" /\ calls >= Q + 1

\* C2: in every reachable state the queue holds at most Q Jobs, and Q never
\* changes after NewWorkerPool.
C2_Bounded == [](Len(JobQueue) <= Q) /\ [][Q' = Q]_vars

\* C2 witness: the queue is full at the largest capacity and a call was
\* refused.
C2_Witness == Q = MaxQ /\ Len(JobQueue) = Q /\ ret = "false"

\* C3: with no dequeue in between, a call on an open queue of length < Q
\* succeeds and makes the queue one longer, and a call on a queue of length
\* Q fails and leaves the length at Q; a dequeue makes the queue one
\* shorter. Hence from an empty queue exactly the first Q calls succeed and
\* the next fails, and after one dequeue exactly one more succeeds and the
\* next fails again. (A call that hands its Job to a parked worker is a
\* dequeue.)
C3_Capacity ==
    [][ /\ (IsAddJobCall /\ ~closed /\ recvq = <<>>) =>
             /\ Len(JobQueue) < Q =>
                  (ret' = "true" /\ Len(JobQueue') = Len(JobQueue) + 1)
             /\ Len(JobQueue) = Q =>
                  (ret' = "false" /\ Len(JobQueue') = Len(JobQueue))
        /\ \A w \in Workers :
             (wpc[w] = "recv" /\ wpc'[w] = "gif") =>
                 Len(JobQueue') = Len(JobQueue) - 1 ]_vars

\* C3 witness: Q + 3 calls were made, one Job has been dequeued and is with
\* a worker, the queue is full again and the last call failed.
C3_Witness ==
    /\ Q >= 1 /\ WorkerCount = 1 /\ ~closed
    /\ calls = Q + 3 /\ ret = "false" /\ Len(JobQueue) = Q
    /\ \E w \in Workers : Holding(w)

\* C4: no Job is delivered to two workers: the Jobs the workers hold are
\* pairwise different, a Job a worker holds is no longer in the queue (it
\* cannot be dequeued again), and no Job is in the queue twice.
C4_UniqueOwnership ==
    /\ \A w1, w2 \in Workers :
         (w1 # w2 /\ Holding(w1) /\ Holding(w2)) => wjob[w1].id # wjob[w2].id
    /\ \A w \in Workers : \A i \in 1..Len(JobQueue) :
         Holding(w) => JobQueue[i].id # wjob[w].id
    /\ \A i, j \in 1..Len(JobQueue) : i # j => JobQueue[i].id # JobQueue[j].id

\* C4 witness: two workers hold Jobs of equal fields at the same time while
\* another Job waits in the queue.
C4_Witness ==
    \E w1, w2 \in Workers :
        /\ w1 # w2 /\ Holding(w1) /\ Holding(w2)
        /\ wjob[w1].VideoID = wjob[w2].VideoID
        /\ JobQueue # <<>>

\* C5, as stated: when Stop has returned, every admitted Job has been
\* dequeued by a worker and none is left in the queue.
C5_AsStated == mainPc = "exited" => (admitOrder = <<>> /\ JobQueue = <<>>)

\* C5, amended: when the pool has at least one worker and Stop has
\* returned, every admitted Job has been dequeued by a worker and none is
\* left in the queue. (With a worker count of 0 Stop returns at once and
\* the admitted Jobs stay in the queue.)
C5_Drained ==
    (mainPc = "exited" /\ WorkerCount >= 1) => (admitOrder = <<>> /\ JobQueue = <<>>)

\* C5 witness: Stop has returned in a pool with workers after the queue
\* had been filled.
C5_Witness ==
    /\ mainPc = "exited" /\ WorkerCount >= 1 /\ Q = MaxQ
    /\ calls >= Q + 1 /\ ret = "false"

\* C6: Jobs are dequeued in the order they were admitted: the Job a worker
\* takes from the queue is the earliest admitted Job not yet dequeued, and a
\* Job is handed straight to a parked worker only when no earlier admitted
\* Job is waiting.
C6_FIFO ==
    [][ \A w \in Workers :
          /\ (wpc[w] = "recv" /\ wpc'[w] = "gif") =>
                (admitOrder # <<>> /\ wjob'[w].id = Head(admitOrder))
          /\ (wpc[w] = "blocked" /\ wpc'[w] = "gif") => admitOrder = <<>> ]_vars

\* C6 witness: a worker holds a dequeued Job while two later Jobs wait in
\* the queue.
C6_Witness ==
    /\ Len(JobQueue) = 2 /\ Len(admitOrder) = 2
    /\ \E w \in Workers : wpc[w] = "jpg"

\* C7, as stated: between the return of Start and the call of Stop exactly
\* WorkerCount workers run; a worker has exited only if the queue is closed
\* and drained; after Stop has returned no worker is active and the queue is
\* empty.
C7_AsStated ==
    /\ mainPc = "serving" => Cardinality({w \in Workers : Running(w)}) = WorkerCount
    /\ \A w \in Workers : wpc[w] = "exited" => (closed /\ JobQueue = <<>>)
    /\ mainPc = "exited" => ((\A w \in Workers : ~Running(w)) /\ JobQueue = <<>>)

\* C7, amended: as stated, except that the queue is known to be empty after
\* Stop has returned only when the pool has at least one worker.
C7_Workers ==
    /\ mainPc = "serving" => Cardinality({w \in Workers : Running(w)}) = WorkerCount
    /\ \A w \in Workers : wpc[w] = "exited" => (closed /\ JobQueue = <<>>)
    /\ mainPc = "exited" =>
         /\ \A w \in Workers : ~Running(w)
         /\ WorkerCount >= 1 => JobQueue = <<>>

\* C7 witness: the servers run, a request has ended with an error or a
\* refusal, and all WorkerCount >= 1 workers are still running.
C7_Witness ==
    /\ mainPc = "serving" /\ WorkerCount = MaxC
    /\ \E s \in Slots : sess[s].pc = "done" /\ sess[s].added # "true"
    /\ \A w \in 1..WorkerCount : Running(w)

\* C8: when a session, streaming or HTTP, returns after its admission was
\* refused, the file it wrote does not exist.
C8_RejectCleanup ==
    [][ \A s \in Slots :
          (sess[s].added = "false" /\ sess[s].pc # "done" /\ sess'[s].pc = "done")
              => sess[s].file \notin exists' ]_vars

\* C8 witness: a session has returned after a refusal and no file is left.
C8_Witness ==
    \E s \in Slots :
        /\ sess[s].pc = "done" /\ sess[s].added = "false"
        /\ sess[s].file = "created" /\ exists = {}

\* C9, as stated: a streaming session calls AddJob at most once; one that
\* ended with a transport, create or write error never called it; one that
\* reached end-of-stream called it exactly once; an admitted session made
\* exactly one Job.
C9_AsStated ==
    \A s \in Slots :
        (sess[s].kind = "grpc" /\ sess[s].pc = "done") =>
            /\ sess[s].addCalls <= 1
            /\ sess[s].cause \in {"recv", "create", "write"} => sess[s].addCalls = 0
            /\ sess[s].cause = "eof" => sess[s].addCalls = 1
            /\ sess[s].added = "true" => sess[s].addCalls = 1

\* C10: a finished streaming session has the resource-exhausted status iff
\* its admission was refused; a create or write failure gave the internal
\* status; a receive error gave the unknown status; the three are different;
\* the success response, with the session's video id, was sent only after
\* the queue accepted the Job.
C10_Statuses ==
    /\ Cardinality({StatusQueueFull, StatusFileError, StatusStreamError}) = 3
    /\ \A s \in Slots :
         (sess[s].kind = "grpc" /\ sess[s].pc = "done") =>
            /\ sess[s].result = StatusQueueFull <=> sess[s].added = "false"
            /\ sess[s].cause \in {"create", "write"} => sess[s].result = StatusFileError
            /\ sess[s].cause = "recv" => sess[s].result = StatusStreamError
            /\ sess[s].result = "OK" =>
                 (sess[s].added = "true" /\ sess[s].videoID \in VideoIDs)

\* C10 witness: a streaming session was refused and got resource-exhausted.
C10_Witness ==
    \E s \in Slots :
        /\ sess[s].kind = "grpc" /\ sess[s].pc = "done"
        /\ sess[s].added = "false" /\ sess[s].result = "ResourceExhausted"

JobIds == 1..(MaxQ + MaxC + 1)
Queued(id) == \E i \in 1..Len(JobQueue) : JobQueue[i].id = id

\* C11: a failing step never stops the worker. The step that fails and the
\* continue that follows leave the queue as it was; after the failure the
\* worker neither runs a step of that Job again nor puts the Job back into
\* the queue, but drops it and takes the next turn of its receive loop; and
\* every Job that is in the queue when a step fails is eventually dequeued.
C11_AsStated ==
    /\ [][ \A w \in Workers :
             /\ (wpc[w] \in {"gif", "jpg"} /\ wpc'[w] = "failed") =>
                  (JobQueue' = JobQueue /\ wjob'[w] = wjob[w])
             /\ (wpc[w] = "failed" /\ wpc'[w] # "failed") =>
                  /\ wpc'[w] = "recv" /\ wjob'[w] = NoJob
                  /\ JobQueue' = JobQueue
                  /\ ~Queued(wjob[w].id)' ]_vars
    /\ \A w \in Workers : \A id \in JobIds :
         (wpc[w] = "failed" /\ Queued(id)) ~> ~Queued(id)

\* The part of C11 that does not depend on the process staying alive, and
\* the rest for as long as no panic ends the process.
C11_WhileAlive ==
    /\ [][ \A w \in Workers :
             /\ (wpc[w] \in {"gif", "jpg"} /\ wpc'[w] = "failed") =>
                  (JobQueue' = JobQueue /\ wjob'[w] = wjob[w])
             /\ (wpc[w] = "failed" /\ wpc'[w] # "failed") =>
                  /\ wpc'[w] = "recv" /\ wjob'[w] = NoJob
                  /\ JobQueue' = JobQueue
                  /\ ~Queued(wjob[w].id)' ]_vars
    /\ \A w \in Workers : \A id \in JobIds :
         (wpc[w] = "failed" /\ Queued(id)) ~> (~Queued(id) \/ crashed)

\* C16: once Stop has been called, every worker eventually exits and Stop
\* returns.
C16_AsStated ==
    (mainPc = "waiting") ~>
        (mainPc = "exited" /\ \A w \in 1..WorkerCount : wpc[w] = "exited")

\* C16 for as long as no panic ends the process.
C16_WhileAlive ==
    (mainPc = "waiting") ~>
        (crashed \/ (mainPc = "exited" /\ \A w \in 1..WorkerCount : wpc[w] = "exited"))

\* C12: an admission attempt that races with shutdown has two outcomes
\* only: AddJob returns true and the Job is in the pool (in the queue or
\* with a worker), or AddJob returns false and no Job is added. An AddJob
\* executed after Stop has closed the queue returns false and leaves the
\* pool and the caller undisturbed. (That a queued Job is drained before
\* Stop returns is C5.)
C12_AsStated ==
    [][ IsAddJobCall =>
          /\ ret' \in {"true", "false"}
          /\ ret' = "true" =>
               \/ \E job \in CallerJobs : JobQueue' = Append(JobQueue, job)
               \/ \E w \in Workers : wjob[w] = NoJob /\ wjob'[w] \in CallerJobs
          /\ ret' = "false" => UNCHANGED poolVars
          /\ closed => (ret' = "false" /\ UNCHANGED poolVars /\ crashed' = crashed) ]_vars

\* C13: the HTTP upload admits through the same queue and by the same rule
\* as the stream: its AddJob acts on JobQueue exactly as C1 describes; a
\* finished POST /api/upload answered 200 iff AddJob accepted its Job and
\* 503 iff AddJob refused it; when the 503 is answered the saved file does
\* not exist; and when AddJob is called the saved file has been closed.
C13_WebUpload ==
    /\ [](\A s \in Slots :
            (sess[s].kind = "http" /\ sess[s].pc = "done") =>
                /\ sess[s].result = "200" <=> sess[s].added = "true"
                /\ sess[s].result = "503" <=> sess[s].added = "false")
    /\ [][ \A s \in Slots :
             sess[s].kind = "http" =>
                /\ (sess[s].pc # "done" /\ sess'[s].result = "503") =>
                      sess[s].file \notin exists'
                /\ (sess'[s].addCalls # sess[s].addCalls) =>
                      /\ ~sess[s].fopen /\ sess[s].closes = 1
                      /\ ~closed =>
                           /\ sess'[s].added = "true" <=>
                                 (recvq # <<>> \/ Len(JobQueue) < Q)
                           /\ (sess'[s].added = "true" /\ recvq = <<>>) =>
                                 /\ Len(JobQueue') = Len(JobQueue) + 1
                                 /\ JobQueue'[Len(JobQueue')].Filename = sess[s].file
                                 /\ JobQueue'[Len(JobQueue')].VideoID = sess[s].videoID
                           /\ sess'[s].added = "false" => JobQueue' = JobQueue ]_vars

\* C13 witness: a POST was refused and answered 503, and its file is gone.
C13_Witness ==
    \E s \in Slots :
        /\ sess[s].kind = "http" /\ sess[s].pc = "done"
        /\ sess[s].result = "503" /\ sess[s].closes = 1
        /\ SavePath(WebVideoID(<<"a">>)) \notin exists

Processing(w) == wpc[w] \in {"gif", "jpg"}

\* C15: no two tasks hold the same destination file at once: no two
\* sessions have the same path open for writing, and no session has a path
\* open for writing, or is about to delete it, while a worker is processing
\* a Job that references that path.
C15_AsStated ==
    /\ \A s1, s2 \in DOMAIN sess :
         (s1 # s2 /\ sess[s1].fopen /\ sess[s2].fopen) =>
             sess[s1].file # sess[s2].file
    /\ \A s \in DOMAIN sess : \A w \in Workers :
         (Processing(w) /\ wjob[w].Filename = sess[s].file) =>
             (~sess[s].fopen /\ sess[s].pc # "remove")

\* C17: within one streaming session the destination file is created at
\* most once, by the step that receives the first chunk, and video_id and
\* the path are set by that step from that chunk's filename and never
\* change afterwards: a later chunk, whatever filename it carries, creates
\* nothing and leaves video_id and the path alone, and the Job submitted
\* and the id sent back carry the video_id and path of the first chunk.
C17_FirstChunk ==
    [][ \A s \in Slots :
          sess[s].kind = "grpc" =>
             /\ (sess[s].file = "" /\ sess'[s].file # "") =>
                   /\ sess[s].chunks = 0 /\ sess'[s].chunks = 1
                   /\ sess'[s].videoID = GrpcVideoID(sess'[s].req)
                   /\ sess'[s].file = SavePath(sess'[s].videoID)
             /\ (sess[s].file # "" /\ sess'[s].pc # "done") =>
                   /\ sess'[s].file = sess[s].file
                   /\ sess'[s].videoID = sess[s].videoID
             /\ (sess[s].file # "" /\ sess'[s].chunks > sess[s].chunks) =>
                   exists' = exists
             /\ (sess[s].pc # "done" /\ sess'[s].result = "OK") =>
                   sess'[s].videoID = sess[s].videoID
             /\ (sess'[s].addCalls # sess[s].addCalls /\ sess'[s].added = "true") =>
                   LET job == IF recvq # <<>> THEN wjob'[Head(recvq)]
                              ELSE JobQueue'[Len(JobQueue')]
                   IN  /\ job.VideoID = sess[s].videoID
                       /\ job.Filename = sess[s].file ]_vars

\* C17 witness: a session has received a second chunk whose filename
\* gives another id than the one the session has.
C17_Witness ==
    \E s \in Slots :
        /\ sess[s].kind = "grpc" /\ sess[s].pc = "write"
        /\ sess[s].chunks = 2 /\ sess[s].req # NoReq
        /\ GrpcVideoID(sess[s].req) # sess[s].videoID
        /\ sess[s].file = SavePath(sess[s].videoID)

\* C18: a session closes its destination file before it attempts
\* admission: when it calls AddJob, and so when its Job enters the queue or
\* is handed to a worker, it has closed the file, and it never has the file
\* open again afterwards, so it does not hold the file open when a worker
\* processes the Job.
C18_CloseBeforeAdmission ==
    /\ [](\A s \in Slots : sess[s].pc \in {"addjob", "remove"} => ~sess[s].fopen)
    /\ [][ \A s \in Slots :
             /\ (sess'[s].addCalls # sess[s].addCalls) =>
                   (~sess[s].fopen /\ sess[s].closes = 1 /\ ~sess'[s].fopen)
             /\ (sess[s].file # "" /\ ~sess[s].fopen) => ~sess'[s].fopen ]_vars

\* C18 witness: a worker is processing the Job of a session that was
\* admitted and has closed its file.
C18_Witness ==
    \E s \in Slots : \E w \in Workers :
        /\ sess[s].pc = "done" /\ sess[s].added = "true" /\ sess[s].closes = 1
        /\ Processing(w) /\ wjob[w].VideoID \in VideoIDs

\* C19: a streaming session whose stream ends before any chunk was received
\* (no destination file was created) returns a response or an error status,
\* submits no Job, and does not crash the handler or the server.
C19_AsStated ==
    \A s \in Slots :
        (sess[s].kind = "grpc" /\ sess[s].pc = "done"
            /\ sess[s].cause = "eof" /\ sess[s].file = "") =>
                /\ sess[s].result # "panic"
                /\ sess[s].addCalls = 0
                /\ ~crashed

\* The files of the Jobs that were admitted and are not yet processed.
PendingFiles ==
    { JobQueue[i].Filename : i \in 1..Len(JobQueue) }
        \cup { wjob[w].Filename : w \in { v \in Workers : Processing(v) } }

\* C20: the source file of an admitted Job stays intact until the Job has
\* been processed: no step deletes the file of a Job that is queued or being
\* processed, and no session creates (and so truncates) that file anew.
C20_AsStated ==
    [][ \A p \in PendingFiles :
          /\ p \in exists'
          /\ \A s \in DOMAIN sess :
               ~(sess[s].file = "" /\ sess'[s].file = p) ]_vars

\* C21: for each Job a worker processes the steps run in the order preview,
\* then thumbnail. The preview step starts only when the worker has just
\* received the Job; the thumbnail step starts only from the preview step
\* of the same Job having succeeded; the thumbnail is produced (the second
\* step succeeds and the Job is done) only from the thumbnail step; and
\* after a failed step the worker does nothing with the Job but drop it, so
\* a failed preview ends the Job with neither artifact produced.
C21_PreviewThenThumbnail ==
    [][ \A w \in Workers :
          /\ (wpc[w] # "gif" /\ wpc'[w] = "gif") =>
                (wpc[w] \in {"recv", "blocked"} /\ wjob[w] = NoJob /\ wjob'[w] # NoJob)
          /\ (wpc[w] = "gif" /\ wpc'[w] # "gif") =>
                (wpc'[w] \in {"jpg", "failed"} /\ wjob'[w] = wjob[w])
          /\ (wpc[w] # "jpg" /\ wpc'[w] = "jpg") =>
                (wpc[w] = "gif" /\ wjob'[w] = wjob[w] /\ wjob[w] # NoJob)
          /\ (wpc[w] = "jpg" /\ wpc'[w] # "jpg") =>
                wpc'[w] \in {"recv", "failed"}
          /\ (wpc[w] = "failed" /\ wpc'[w] # "failed") =>
                (wpc'[w] = "recv" /\ wjob'[w] = NoJob) ]_vars

\* C21 witness: one worker is at the thumbnail step of its Job, its preview
\* having succeeded, while another worker is at a failed step of its Job.
C21_Witness ==
    \E w1, w2 \in Workers :
        /\ w1 # w2
        /\ wpc[w1] = "jpg" /\ Holding(w1)
        /\ wpc[w2] = "failed" /\ Holding(w2)

====
